---------------------------- MODULE Spec2Model ----------------------------
(***************************************************************************)
(* A model of miniglean (src/miniglean.py): the telemetry table and the    *)
(* metric accumulator (Metric.record, Counter.add, StringMetric.set), the  *)
(* label limiter (label_check), the ping assembler (Ping.submit with       *)
(* get_ping_info) and the pending_pings outbox (Uploader.get_upload_task). *)
(*                                                                         *)
(* The specifications share the definitions below:                         *)
(*   Spec       one process recording and submitting, one call after the   *)
(*              other (the program as __main__ runs it);                   *)
(*   SpecOutbox one process submitting and running get_upload_task,        *)
(*              SpecOutboxFair the same with the loop running on;          *)
(*   SpecWhole  one process recording, submitting and uploading;           *)
(*   SpecLabel  one labeled or dual-labeled counter driven by the loops of *)
(*              the test_*_many tests, for every choice of allow-lists;    *)
(*   SpecCap    a labeled or dual-labeled counter without allow-lists,     *)
(*              recorded through handles sent in different reports, with   *)
(*              a submit in between;                                       *)
(*   SpecUploaders, SpecRecorders  two processes, each with its own        *)
(*              sqlite3 connection to glean.db, whose statements           *)
(*              interleave: both run get_upload_task, both record;         *)
(*   SpecSubmit one process recording, one submitting, statement by        *)
(*              statement, either of which may be killed;                  *)
(*   SpecFeed   one process running get_upload_task, one submitting.       *)
(*                                                                         *)
(* Encoding of the program's values:                                       *)
(*   - a label string is the sequence of its comma-free segments: "" is    *)
(*     << >>, "a" is <<"a">>, "a,b" is <<"a","b">>; `"," in s` is          *)
(*     Len(s) >= 2, s.split(",") is s itself and f"{k},{c}" is <<k, c>>;   *)
(*   - Python's None and a missing row are the empty set, a value v that   *)
(*     was fetched is {v}; None and an empty allow-list are both falsy in  *)
(*     the code and are both {};                                           *)
(*   - str(datetime.now()) and DATETIME('now') are readings of the clock   *)
(*     `now`; uuid.uuid4() is the next unused document number.             *)
(* Input domain: metric ids, report names and labels given by the          *)
(* application are plain identifiers: they are not empty, contain no ","   *)
(* and are none of the names the program reserves ("__other__",            *)
(* "glean_ping_info", "sequence#...", "start#...").                        *)
(***************************************************************************)
EXTENDS Integers, Sequences, FiniteSets, TLC

VARIABLES
    telemetry,  \* table telemetry: the rows the connection sees
    pending,    \* table pending_pings: the rows the connection sees
    now,        \* the wall clock
    nextId,     \* number of documents ever created (uuid4 never repeats)
    loop,       \* Spec: TRUE while get_upload_task's while loop runs
    log,        \* history: <<ping, seq, id>> of every payload submit built
    claims,     \* history: document id -> times the claim step returned it
    succeeded,  \* history: ids of documents whose upload succeeded
    behind,     \* history: document id -> the documents that were pending when
                \* its upload last failed and were not claimed since
    script,     \* SpecLabel: the metric handle and loop sizes under test
    pos,        \* SpecLabel: position of the loops
    added,      \* history: per row, the amounts added since it was last absent
    pc,         \* two processes: per process, the statement it is at
    reg,        \* two processes: per process, its local variables
    lock,       \* two processes: the connection holding the write transaction
    committed   \* two processes: the database as committed (other connections' view)

storeVars == <<telemetry, pending, now, nextId>>
histVars  == <<log, claims, succeeded, behind, added>>
labelVars == <<script, pos>>
concVars  == <<pc, reg, lock, committed>>
vars == <<telemetry, pending, now, nextId, loop, log, claims, succeeded, behind,
          added, script, pos, pc, reg, lock, committed>>

-----------------------------------------------------------------------------
(* Program constants *)

MAX_LABELS == 16
MAX_TRIES == 3
Other == "__other__"
PingInfo == "glean_ping_info"
GLEAN_START_TIME == 0

(* Bounds of the model *)

MaxTime == 1        \* the clock runs from 0 to MaxTime
MaxValue == 4       \* counters of the application stop at MaxValue
MaxSubmits == 2     \* submit calls in one behaviour
NumLabels == 18     \* SpecLabel: distinct raw values of the longer loop
NumNarrow == 5      \* SpecLabel: distinct raw values of the shorter loop
MaxPasses == 2      \* SpecLabel: times the loops are run

-----------------------------------------------------------------------------
(* The telemetry table *)

\* SELECT ... WHERE id = ?1 AND ping = ?2 AND labels = ?3
RowsAt(t, id, ping, labels) ==
    {row \in t : row.id = id /\ row.ping = ping /\ row.labels = labels}

\* fetchone() of SELECT value ..., then `value and value[0]`: {} is None
SelectValue(t, id, ping, labels) ==
    {row.value : row \in RowsAt(t, id, ping, labels)}

UpsertOrIgnore(t, id, ping, lifetime, labels, value) ==
    IF RowsAt(t, id, ping, labels) # {} THEN t
    ELSE t \cup {[id |-> id, ping |-> ping, lifetime |-> lifetime,
                  labels |-> labels, value |-> value]}
\* INSERT ... ON CONFLICT(id, ping, labels) DO UPDATE SET lifetime, value
Upsert(t, id, ping, lifetime, labels, value) ==
    (t \ RowsAt(t, id, ping, labels))
        \cup {[id |-> id, ping |-> ping, lifetime |-> lifetime,
               labels |-> labels, value |-> value]}

DeleteEveryReport(t, ping) == {row \in t : row.lifetime # "ping"}
DeleteEveryLifetime(t, ping) == {row \in t : row.ping # ping}
\* DELETE FROM telemetry WHERE ping = ?1 AND lifetime = 'ping'
DeletePingLifetime(t, ping) ==
    {row \in t : ~(row.ping = ping /\ row.lifetime = "ping")}

DistinctLabelsOfMetrics(t, id) ==
    {row.labels : row \in {r \in t : r.id = id /\ r.ping = "metrics"}}
\* SELECT DISTINCT labels FROM telemetry WHERE id = ?1
DistinctLabels(t, id) == {row.labels : row \in {r \in t : r.id = id}}

-----------------------------------------------------------------------------
(* Metric handles and the update functions passed to record *)

Handle(name, lifetime, pings, label, al, ak, ac) ==
    [name |-> name, lifetime |-> lifetime, send_in_pings |-> pings,
     label |-> label, allowed_labels |-> al, allowed_keys |-> ak,
     allowed_cats |-> ac]

\* Counter(name, lifetime, send_in_pings): label = None
Counter(name, lifetime, pings) == Handle(name, lifetime, pings, << >>, {}, {}, {})

\* LabeledCounter.get(label)
LabeledGet(name, lifetime, pings, al, label) ==
    Handle(name, lifetime, pings, <<label>>, al, {}, {})

\* DualLabeledCounter.get(key, cat): label = f"{key},{cat}"
DualGet(name, lifetime, pings, ak, ac, key, cat) ==
    Handle(name, lifetime, pings, <<key, cat>>, {}, ak, ac)

\* Counter.add: lambda value: int(value or 0) + amount
AddFn(amount) == [kind |-> "add", arg |-> amount]
\* StringMetric.set: lambda _: value
SetFn(value) == [kind |-> "set", arg |-> value]

ApplyFnOverwrite(fn, value) == fn.arg
\* newvalue = fn(value and value[0])
ApplyFn(fn, value) ==
    IF fn.kind = "add"
    THEN (IF value = {} THEN 0 ELSE CHOOSE v \in value : TRUE) + fn.arg
    ELSE fn.arg

-----------------------------------------------------------------------------
(* label_check *)

\* len(existing) >= MAX_LABELS
CapReachedAbove(n) == n > MAX_LABELS
CapReached(n) == n >= MAX_LABELS

\* the else branch of the single-label case: count the stored labels
DynamicSingle(this, t) ==
    LET existing_labels == DistinctLabels(t, this.name)
    IN  IF this.label \notin existing_labels
           /\ CapReached(Cardinality(existing_labels))
        THEN <<Other>>
        ELSE this.label

SingleLabelFallingThrough(this, t) ==
    IF this.allowed_labels # {} /\ this.label[1] \notin this.allowed_labels
    THEN <<Other>>
    ELSE DynamicSingle(this, t)
\* the single-label case
SingleLabel(this, t) ==
    IF this.allowed_labels # {}
    THEN IF this.label[1] \notin this.allowed_labels
         THEN <<Other>>
         ELSE this.label
    ELSE DynamicSingle(this, t)

\* one dimension in the branch `else` of `if allowed_keys and allowed_cats`:
\*   if allowed and v not in allowed: "__other__"
\*   elif v not in stored and len(stored) >= MAX_LABELS: "__other__"
MixedDimension(v, allowed, stored) ==
    IF allowed # {} /\ v \notin allowed
    THEN Other
    ELSE IF v \notin stored /\ CapReached(Cardinality(stored))
         THEN Other
         ELSE v

DualLabelPairCap(this, t) ==
    LET existing_labels == DistinctLabels(t, this.name)
    IN  IF this.label \notin existing_labels
           /\ CapReached(Cardinality(existing_labels))
        THEN <<Other, this.label[2]>>
        ELSE this.label
\* the dual-label case
DualLabel(this, t) ==
    LET key == this.label[1]
        cat == this.label[2]
    IN  IF this.allowed_keys # {} /\ this.allowed_cats # {}
        THEN <<IF key \notin this.allowed_keys THEN Other ELSE key,
               IF cat \notin this.allowed_cats THEN Other ELSE cat>>
        ELSE LET existing_labels == DistinctLabels(t, this.name)
                 keys == {lab[1] : lab \in existing_labels}
                 cats == {lab[2] : lab \in existing_labels}
             IN  <<MixedDimension(key, this.allowed_keys, keys),
                   MixedDimension(cat, this.allowed_cats, cats)>>

label_check(this, t) ==
    IF Len(this.label) >= 2 THEN DualLabel(this, t) ELSE SingleLabel(this, t)

-----------------------------------------------------------------------------
(* Metric.record and Metric.get_value *)

\* labels = "" unless self.label, then label_check(self, cur)
RecordLabels(this, t) ==
    IF this.label # << >> THEN label_check(this, t) ELSE << >>

\* the body of `for ping in pings`, from the i-th ping on
RECURSIVE RecordLoop(_, _, _, _, _)
RecordLoop(t, this, labels, fn, i) ==
    IF i > Len(this.send_in_pings)
    THEN t
    ELSE LET ping == this.send_in_pings[i]
             value == SelectValue(t, this.name, ping, labels)
             newvalue == ApplyFn(fn, value)
         IN  RecordLoop(Upsert(t, this.name, ping, this.lifetime, labels, newvalue),
                        this, labels, fn, i + 1)

\* Metric.record(fn), on one connection with nothing interleaved
Record(t, this, fn) == RecordLoop(t, this, RecordLabels(this, t), fn, 1)

\* Metric.get_value(ping=None): reads labels = self.label as given
GetValue(t, this) ==
    SelectValue(t, this.name, this.send_in_pings[1], this.label)

\* SELECT labels, value FROM telemetry WHERE id = ?1 AND ping = ?2
SelectLabels(t, id, ping) == {row \in t : row.id = id /\ row.ping = ping}

\* LabeledCounter.get_value(ping): dict(value), label -> value
LabeledGetValue(t, id, ping) ==
    LET rows == SelectLabels(t, id, ping)
    IN  [lab \in {row.labels : row \in rows} |->
            (CHOOSE row \in rows : row.labels = lab).value]

\* DualLabeledCounter.get_value(ping): values[key][cat] = value
DualGetValue(t, id, ping) ==
    LET rows == SelectLabels(t, id, ping)
    IN  [key \in {row.labels[1] : row \in rows} |->
            [cat \in {row.labels[2] : row \in {r \in rows : r.labels[1] = key}} |->
                (CHOOSE row \in rows : row.labels = <<key, cat>>).value]]


-----------------------------------------------------------------------------
(* get_ping_info and Ping.submit *)

SeqMetricShared(ping) == Counter("sequence#", "user", <<PingInfo>>)
\* Counter(f"sequence#{ping}", "user", ["glean_ping_info"])
SeqMetric(ping) == Counter("sequence#" \o ping, "user", <<PingInfo>>)
\* StringMetric(f"start#{ping}", "user", ["glean_ping_info"])
StartMetric(ping) == Counter("start#" \o ping, "user", <<PingInfo>>)

\* get_ping_info(ping) at clock reading `clock`: the table it leaves and
\* the ping_info it returns
get_ping_info(t, ping, clock) ==
    LET t1 == Record(t, SeqMetric(ping), AddFn(1))
        got == GetValue(t1, StartMetric(ping))
        st == IF got = {} THEN GLEAN_START_TIME ELSE CHOOSE v \in got : TRUE
        end_time == clock
        t2 == Record(t1, StartMetric(ping), SetFn(end_time))
    IN  [t |-> t2,
         ping_info |-> [seq |-> CHOOSE v \in GetValue(t2, SeqMetric(ping)) : TRUE,
                        start_time |-> st,
                        end_time |-> end_time]]

SelectPingLifetime(t, ping) ==
    {row \in t : row.ping = ping /\ row.lifetime = "ping"}
\* SELECT id, value, labels FROM telemetry WHERE ping = ?1
SelectPing(t, ping) == {row \in t : row.ping = ping}

\* the place of a row's value in the nested dict `metrics`:
\* metrics[id], metrics[id][labels] or metrics[id][labels[0]][labels[1]]
Path(row) ==
    <<row.id>> \o (IF Len(row.labels) >= 2
                   THEN <<row.labels[1], row.labels[2]>>
                   ELSE row.labels)

\* the dict `metrics` as the set of its leaves
Reshape(rows) == {[path |-> Path(row), value |-> row.value] : row \in rows}

\* the row INSERTed INTO pending_pings: tries and updated_at take the
\* column defaults 0 and DATETIME('now')
NewPending(doc_id, ping, payload, clock) ==
    [id |-> doc_id, ping |-> ping, payload |-> payload, tries |-> 0,
     updated_at |-> clock]

\* Ping(ping).submit(): the tables it leaves and the payload it built
submit(t, p, ping, clock, doc_id) ==
    LET metrics == Reshape(SelectPing(t, ping))
        info == get_ping_info(DeletePingLifetime(t, ping), ping, clock)
        payload == [ping_info |-> info.ping_info, metrics |-> metrics]
    IN  [t |-> info.t,
         p |-> p \cup {NewPending(doc_id, ping, payload, clock)},
         payload |-> payload]

-----------------------------------------------------------------------------
(* Uploader.get_upload_task *)

\* ORDER BY updated_at, tries
Before(a, b) ==
    \/ a.updated_at < b.updated_at
    \/ a.updated_at = b.updated_at /\ a.tries <= b.tries

\* SELECT id FROM pending_pings ORDER BY updated_at, tries LIMIT 1: the
\* rows that may come first (SQL leaves the order of equal rows open)
FirstPending(p) == {d \in p : \A e \in p : Before(d, e)}

\* SET tries = tries+1, updated_at = DATETIME('now') ... RETURNING
Claimed(d, clock) == [d EXCEPT !.tries = @ + 1, !.updated_at = clock]

\* UPDATE pending_pings ... WHERE id = (the first id)
ClaimUpdate(p, d, clock) ==
    {IF e.id = d.id THEN Claimed(e, clock) ELSE e : e \in p}

DeletePendingKept(p, id) == p
\* DELETE FROM pending_pings WHERE id = ?1
DeletePending(p, id) == {d \in p : d.id # id}

\* value[1] > MAX_TRIES
ExceededLate(tries) == tries > MAX_TRIES + 1
ExceededAtLimit(tries) == tries >= MAX_TRIES
Exceeded(tries) == tries > MAX_TRIES

\* one turn of the while loop that claimed d: the table after the two ifs
UploadTurn(p, d, clock, ok) ==
    LET value == Claimed(d, clock)
        p1 == ClaimUpdate(p, d, clock)
        p2 == IF Exceeded(value.tries) THEN DeletePending(p1, value.id) ELSE p1
    IN  IF ok THEN DeletePending(p2, value.id) ELSE p2

\* documents in one behaviour: those of MaxSubmits submit calls and one
\* more that is submitted while get_upload_task runs
MaxDocs == MaxSubmits + 1

\* the ids of the documents in the table
Ids(p) == {d.id : d \in p}

\* history: the claim step returned document id
BehindAfterClaim(b, id) ==
    [x \in DOMAIN b |-> IF x = id THEN {} ELSE b[x] \ {id}]

\* history: the upload of document id failed and left the table p
BehindAfterFailure(b, id, p) == [b EXCEPT ![id] = Ids(p) \ {id}]


-----------------------------------------------------------------------------
(* One process; every call runs to its end before the next begins.       *)
(* Spec: the application records and submits.  SpecOutbox: the            *)
(* application submits and runs get_upload_task.  Recording touches only  *)
(* telemetry and the upload loop only pending_pings.                      *)

Reports == {"metrics", "events"}

\* the counters the application records into
AppMetrics ==
    {Counter("starts", "user", <<"metrics">>),
     Counter("clicks", "ping", <<"metrics", "events">>)}

\* the rows (metric id, report name) of the application's counters
AppRows == {<<"starts", "metrics">>, <<"clicks", "metrics">>, <<"clicks", "events">>}

\* the arguments of add: none, 1 or 2
Args == {{}, {1}, {2}}

\* def add(self, amount=1)
Amount(arg) == IF arg = {} THEN 1 ELSE CHOOSE a \in arg : TRUE

\* Counter.add
CounterAdd(t, this, arg) == Record(t, this, AddFn(Amount(arg)))

Pings(this) == {this.send_in_pings[i] : i \in 1..Len(this.send_in_pings)}

Stored(t, k) == SelectValue(t, k[1], k[2], << >>)

\* what a caller of add asks for: add() asks for 1
Asked(arg) == IF arg = {} THEN 1 ELSE CHOOSE a \in arg : TRUE

\* history: the amounts asked for on each row since it was last absent,
\* after a step that leaves table t and asked `amount` of the rows `touched`
AddedAfter(t, touched, amount) ==
    [k \in AppRows |->
        IF Stored(t, k) = {} THEN 0
        ELSE IF k \in touched THEN added[k] + amount
        ELSE added[k]]

Init ==
    /\ telemetry = {}
    /\ pending = {}
    /\ now = GLEAN_START_TIME
    /\ nextId = 0
    /\ loop = FALSE
    /\ log = << >>
    /\ claims = [i \in 1..MaxSubmits |-> 0]
    /\ succeeded = {}
    /\ behind = [i \in 1..MaxDocs |-> {}]
    /\ added = [k \in AppRows |-> 0]
    /\ script = 0
    /\ pos = 0
    /\ pc = 0
    /\ reg = 0
    /\ lock = 0
    /\ committed = 0

\* time passes
Tick ==
    /\ now < MaxTime
    /\ now' = now + 1
    /\ UNCHANGED <<telemetry, pending, nextId, loop>>
    /\ UNCHANGED <<histVars, labelVars, concVars>>

\* c.add(), c.add(1) or c.add(2) on a counter of the application
Add(this, arg) ==
    /\ ~loop
    /\ \A ping \in Pings(this) :
          ApplyFn(AddFn(Amount(arg)), Stored(telemetry, <<this.name, ping>>)) <= MaxValue
    /\ telemetry' = CounterAdd(telemetry, this, arg)
    /\ added' = AddedAfter(telemetry', {<<this.name, ping>> : ping \in Pings(this)},
                           Asked(arg))
    /\ UNCHANGED <<pending, now, nextId, loop, log, claims, succeeded, behind>>
    /\ UNCHANGED <<labelVars, concVars>>

\* Ping(ping).submit()
Submit(ping) ==
    /\ ~loop
    /\ nextId < MaxSubmits
    /\ LET doc_id == nextId + 1
           s == submit(telemetry, pending, ping, now, doc_id)
       IN  /\ telemetry' = s.t
           /\ pending' = s.p
           /\ nextId' = doc_id
           /\ log' = Append(log, <<ping, s.payload.ping_info.seq, doc_id>>)
    /\ added' = AddedAfter(telemetry', {}, 0)
    /\ UNCHANGED <<now, loop, claims, succeeded, behind>>
    /\ UNCHANGED <<labelVars, concVars>>

\* Uploader().get_upload_task() is called
UploadStart ==
    /\ ~loop
    /\ loop' = TRUE
    /\ UNCHANGED <<storeVars, histVars, labelVars, concVars>>

\* one turn of the while loop: a document is claimed, the upload succeeds
\* (random.random() < 0.5) or fails
UploadStep ==
    /\ loop
    /\ \E d \in FirstPending(pending), ok \in BOOLEAN :
          /\ pending' = UploadTurn(pending, d, now, ok)
          /\ claims' = [claims EXCEPT ![d.id] = @ + 1]
          /\ succeeded' = IF ok THEN succeeded \cup {d.id} ELSE succeeded
          /\ behind' = IF ok THEN BehindAfterClaim(behind, d.id)
                       ELSE BehindAfterFailure(BehindAfterClaim(behind, d.id),
                                               d.id, pending')
    /\ UNCHANGED <<telemetry, now, nextId, loop, log, added>>
    /\ UNCHANGED <<labelVars, concVars>>

UploadEndAnyway ==
    /\ loop
    /\ loop' = FALSE
    /\ UNCHANGED <<storeVars, histVars, labelVars, concVars>>
\* the claim returns no row: "no ping to upload", break
UploadEnd ==
    /\ loop
    /\ pending = {}
    /\ loop' = FALSE
    /\ UNCHANGED <<storeVars, histVars, labelVars, concVars>>

Next ==
    \/ Tick
    \/ \E this \in AppMetrics, arg \in Args : Add(this, arg)
    \/ \E ping \in Reports : Submit(ping)

Spec == Init /\ [][Next]_vars

NextOutbox ==
    \/ Tick
    \/ \E ping \in Reports : Submit(ping)
    \/ UploadStart
    \/ UploadStep
    \/ UploadEnd

SpecOutbox == Init /\ [][NextOutbox]_vars

\* the application records, submits and uploads, one call after the other
NextWhole ==
    \/ Tick
    \/ \E this \in AppMetrics, arg \in Args : Add(this, arg)
    \/ \E ping \in Reports : Submit(ping)
    \/ UploadStart
    \/ UploadStep
    \/ UploadEnd

SpecWhole == Init /\ [][NextWhole]_vars

\* get_upload_task is straight-line code around one while loop with no
\* blocking call: once called, its next turn or its break is taken
SpecOutboxFair ==
    /\ Init
    /\ [][NextOutbox]_vars
    /\ WF_vars(UploadStep)
    /\ WF_vars(UploadEnd)

-----------------------------------------------------------------------------
(* Claims about the accumulator, submit and the outbox *)

\* a step in which Ping(ping).submit() runs
Submitted(ping) ==
    /\ Len(log') = Len(log) + 1
    /\ log'[Len(log')][1] = ping

\* C1: for every report name and every row stored under it, after submit
\* of that report a row of lifetime 'ping' is absent (get_value yields
\* None) and a row of lifetime 'user' still holds the value it had.
C1_SubmitClearsPingKeepsUser ==
    [][\A ping \in Reports :
         Submitted(ping) =>
            \A row \in SelectPing(telemetry, ping) :
               LET after == GetValue(telemetry', Counter(row.id, row.lifetime, <<ping>>))
               IN  /\ row.lifetime = "ping" => after = {}
                   /\ row.lifetime = "user" => after = {row.value}]_vars

\* a submit has built a payload from a 'user' row and a 'ping' row: the
\* first is still stored with the value in the payload, the second is gone
C1_Witness ==
    \E d \in pending :
       \E u \in d.payload.metrics, c \in d.payload.metrics :
          /\ u.path = <<"starts">>
          /\ c.path = <<"clicks">>
          /\ Stored(telemetry, <<"starts", d.ping>>) = {u.value}
          /\ Stored(telemetry, <<"clicks", d.ping>>) = {}

\* C2: a document whose upload fails on every claim is in the outbox as
\* long as it was claimed at most MAX_TRIES times, is deleted by the claim
\* after that (the 4th) and is claimed no more.
C2_FailingDocDeletedAtFourthClaim ==
    \A id \in 1..nextId :
       id \notin succeeded =>
          /\ claims[id] <= MAX_TRIES + 1
          /\ (id \in {d.id : d \in pending}) <=> (claims[id] <= MAX_TRIES)

\* a document failed MAX_TRIES + 1 times and is gone while the loop runs on
C2_Witness ==
    \E id \in 1..nextId :
       /\ id \notin succeeded
       /\ claims[id] = MAX_TRIES + 1
       /\ id \notin {d.id : d \in pending}
       /\ loop
       /\ pending # {}

\* C5: the value stored in a row is the sum of the amounts asked for
\* since the row was last absent, add() counting as 1; a row nothing was
\* added to is absent.
C5_CounterAddsUp ==
    \A k \in AppRows :
       Stored(telemetry, k) = IF added[k] = 0 THEN {} ELSE {added[k]}

\* add(2) twice: the row holds 4
C5_Witness ==
    /\ added[<<"clicks", "metrics">>] = 4
    /\ Stored(telemetry, <<"clicks", "metrics">>) = {4}

\* C9: the sequence number in the payload of the i-th submit is the number
\* of submits of the same report so far: 1 on the first, one more on each
\* next, whatever was recorded or submitted for other reports in between.
C9_SeqIncreasesByOne ==
    \A i \in 1..Len(log) :
       log[i][2] = Cardinality({j \in 1..i : log[j][1] = log[i][1]})

\* a report was submitted twice, with 'ping' rows cleared by the first
\* submit and recorded again, and got the sequence numbers 1 and 2
C9_Witness ==
    /\ Len(log) = 2
    /\ log[1][1] = log[2][1]
    /\ log[2][2] = 2
    /\ \A d \in pending : \E c \in d.payload.metrics : c.path = <<"clicks">>

-----------------------------------------------------------------------------
(* SpecLabel: one labeled or dual-labeled counter of lifetime 'ping',      *)
(* sent in "metrics", recorded by the loops of test_labeled_counter_many   *)
(* and test_dual_labeled_counter_many:                                     *)
(*     for key in range(K): for cat in range(C): get(key, cat).add(1)      *)
(* run script.passes times, for every K, C and choice of allow-lists.      *)

\* f"label{i}", f"key{i}", f"cat{i}"
Lab(i) == "label" \o ToString(i)
Key(i) == "key" \o ToString(i)
Cat(i) == "cat" \o ToString(i)

LabeledName == "many-errors"
DualName == "dual-labeled-many"

\* allow-lists: none, one value, every value but the first
AllowLists(X) == {{}, {X[1]}, {X[i] : i \in 1..(NumLabels - 1)}}

Scripts ==
    [kind : {"labeled"},
     al : AllowLists([i \in 0..NumLabels |-> Lab(i)]), ak : {{}}, ac : {{}},
     K : 0..NumLabels, C : {1}, passes : 1..MaxPasses]
    \cup
    {sc \in [kind : {"dual"}, al : {{}},
              ak : AllowLists([i \in 0..NumLabels |-> Key(i)]),
              ac : AllowLists([i \in 0..NumLabels |-> Cat(i)]),
              K : 0..NumLabels, C : 0..NumLabels, passes : 1..MaxPasses] :
        sc.K <= NumNarrow \/ sc.C <= NumNarrow}

\* the handle lc.get(...) gives at loop position (i, j)
ScriptHandle(sc, i, j) ==
    IF sc.kind = "labeled"
    THEN LabeledGet(LabeledName, "ping", <<"metrics">>, sc.al, Lab(i))
    ELSE DualGet(DualName, "ping", <<"metrics">>, sc.ak, sc.ac, Key(i), Cat(j))

\* the loop position after (pass, i, j)
NextPos(sc, at) ==
    IF at.j + 1 < sc.C THEN [at EXCEPT !.j = @ + 1]
    ELSE IF at.i + 1 < sc.K THEN [at EXCEPT !.i = @ + 1, !.j = 0]
    ELSE [pass |-> at.pass + 1, i |-> 0, j |-> 0]

InitLabel ==
    /\ telemetry = {}
    /\ pending = {}
    /\ now = GLEAN_START_TIME
    /\ nextId = 0
    /\ loop = FALSE
    /\ log = << >>
    /\ claims = [i \in 1..MaxSubmits |-> 0]
    /\ succeeded = {}
    /\ behind = [i \in 1..MaxDocs |-> {}]
    /\ added = [k \in AppRows |-> 0]
    /\ script \in Scripts
    /\ pos = [pass |-> 1, i |-> 0, j |-> 0]
    /\ pc = 0
    /\ reg = 0
    /\ lock = 0
    /\ committed = 0

\* lc.get(...).add(1) at the loop position
LabelAdd ==
    /\ pos.pass <= script.passes
    /\ script.K > 0
    /\ script.C > 0
    /\ telemetry' = CounterAdd(telemetry, ScriptHandle(script, pos.i, pos.j), {1})
    /\ pos' = NextPos(script, pos)
    /\ UNCHANGED <<pending, now, nextId, loop, script>>
    /\ UNCHANGED <<histVars, concVars>>

NextLabel == LabelAdd

SpecLabel == InitLabel /\ [][NextLabel]_vars

-----------------------------------------------------------------------------
(* Claims about the label limiter *)

Min(a, b) == IF a < b THEN a ELSE b

\* the add calls made so far with the i-th raw value of the outer loop
\* and one fixed value of the inner loop
CallsSoFar(i) == (pos.pass - 1) + (IF i < pos.i THEN 1 ELSE 0)

\* the add calls made so far with an outer value past the first MAX_LABELS
OverflowCalls ==
    IF script.K <= MAX_LABELS THEN 0
    ELSE (script.K - MAX_LABELS) * (pos.pass - 1)
         + (IF pos.i > MAX_LABELS THEN pos.i - MAX_LABELS ELSE 0)

\* C4: a labeled counter without allow-list, from an empty table: the
\* first MAX_LABELS labels are stored under their own name with the number
\* of adds made on them (1 after one pass, also when they are added again
\* after the cap is reached), every add on a later label is counted in
\* '__other__', and there is no other row.
C4_FirstSixteenThenOther ==
    (script.kind = "labeled" /\ script.al = {}) =>
        LET own == {i \in 0..(Min(script.K, MAX_LABELS) - 1) : CallsSoFar(i) > 0}
            expected ==
                [lab \in {<<Lab(i)>> : i \in own}
                         \cup (IF OverflowCalls > 0 THEN {<<Other>>} ELSE {}) |->
                    IF lab = <<Other>> THEN OverflowCalls
                    ELSE CallsSoFar(CHOOSE i \in own : lab = <<Lab(i)>>)]
        IN  LabeledGetValue(telemetry, LabeledName, "metrics") = expected

\* NumLabels labels were added once and the first was added again: it is
\* stored with 2, '__other__' holds the NumLabels - MAX_LABELS overflows
C4_Witness ==
    /\ script.kind = "labeled"
    /\ script.al = {}
    /\ script.K = NumLabels
    /\ pos = [pass |-> 2, i |-> 1, j |-> 0]
    /\ SelectValue(telemetry, LabeledName, "metrics", <<Lab(0)>>) = {2}
    /\ SelectValue(telemetry, LabeledName, "metrics", <<Other>>) = {NumLabels - MAX_LABELS}

\* the row an add call wrote
Written == telemetry' \ telemetry

\* C6: a labeled counter with an allow-list: every label is stored
\* unchanged if it is in the allow-list and as '__other__' if not,
\* however many labels are stored.
C6_AllowListDecides ==
    [][(script.kind = "labeled" /\ script.al # {}) =>
          \A row \in Written :
             row.labels = IF Lab(pos.i) \in script.al THEN <<Lab(pos.i)>> ELSE <<Other>>]_vars

\* more than MAX_LABELS allowed labels and '__other__' are stored
C6_Witness ==
    /\ script.kind = "labeled"
    /\ script.al # {}
    /\ <<Other>> \in DistinctLabels(telemetry, LabeledName)
    /\ Cardinality(DistinctLabels(telemetry, LabeledName)) > MAX_LABELS + 1

\* the single-label rule for one dimension of a dual-labeled counter:
\* `allowed` is the dimension's allow-list, `stored` its stored values
SingleRule(raw, eff, allowed, stored) ==
    IF allowed # {}
    THEN eff = IF raw \in allowed THEN raw ELSE Other
    ELSE /\ eff \in {raw, Other}
         /\ eff = Other => (raw \notin stored /\ Cardinality(stored) >= MAX_LABELS)

\* C7: a dual-labeled counter: the key and the category are each stored
\* by the single-label rule, whatever the other dimension's allow-list
\* and however many values are stored.
C7_DimensionsIndependent ==
    [][script.kind = "dual" =>
          \A row \in Written :
             LET existing == DistinctLabels(telemetry, DualName)
             IN  /\ SingleRule(Key(pos.i), row.labels[1], script.ak,
                               {lab[1] : lab \in existing})
                 /\ SingleRule(Cat(pos.j), row.labels[2], script.ac,
                               {lab[2] : lab \in existing})]_vars

\* the expected get_value() of C8: keys 0..nk-1 and cats 0..nc-1 with 1,
\* and the overflow rows
Expected(nk, nc, otherKey, otherCat) ==
    [key \in {Key(i) : i \in 0..(nk - 1)} \cup (IF otherKey > 0 THEN {Other} ELSE {}) |->
        [cat \in {Cat(j) : j \in 0..(nc - 1)} \cup (IF otherCat > 0 THEN {Other} ELSE {}) |->
            IF key = Other THEN otherKey ELSE IF cat = Other THEN otherCat ELSE 1]]

\* C8: a dual-labeled counter without allow-lists, after one pass over K
\* keys and C categories: when C <= MAX_LABELS, the first MAX_LABELS keys
\* hold every category with 1 and '__other__' holds every category with
\* K - MAX_LABELS; the same with keys and categories exchanged.
C8_EachDimensionCapped ==
    (/\ script.kind = "dual" /\ script.ak = {} /\ script.ac = {}
     /\ script.K > 0 /\ script.C > 0
     /\ pos = [pass |-> 2, i |-> 0, j |-> 0]) =>
        LET got == DualGetValue(telemetry, DualName, "metrics")
            K == script.K
            C == script.C
        IN  /\ C <= MAX_LABELS =>
                 got = Expected(Min(K, MAX_LABELS), C,
                                IF K > MAX_LABELS THEN K - MAX_LABELS ELSE 0, 0)
            /\ K <= MAX_LABELS =>
                 got = Expected(K, Min(C, MAX_LABELS), 0,
                                IF C > MAX_LABELS THEN C - MAX_LABELS ELSE 0)

\* NumLabels keys and NumNarrow categories: more than MAX_LABELS + 1 pairs
\* are stored, '__other__' among the keys
C8_Witness ==
    /\ script.kind = "dual" /\ script.ak = {} /\ script.ac = {}
    /\ script.K = NumLabels /\ script.C = NumNarrow
    /\ pos = [pass |-> 2, i |-> 0, j |-> 0]
    /\ Cardinality(SelectLabels(telemetry, DualName, "metrics")) > MAX_LABELS + 1
    /\ SelectValue(telemetry, DualName, "metrics", <<Other, Cat(0)>>) = {NumLabels - MAX_LABELS}

\* the same with NumNarrow keys and NumLabels categories
C8_WitnessCats ==
    /\ script.kind = "dual" /\ script.ak = {} /\ script.ac = {}
    /\ script.K = NumNarrow /\ script.C = NumLabels
    /\ pos = [pass |-> 2, i |-> 0, j |-> 0]
    /\ SelectValue(telemetry, DualName, "metrics", <<Key(0), Other>>) = {NumLabels - MAX_LABELS}

-----------------------------------------------------------------------------
(* Two processes run the program, each with its own connection           *)
(* sqlite3.connect("glean.db") in the default transaction mode: a         *)
(* connection opens a transaction before its first INSERT, UPDATE or      *)
(* DELETE and keeps it until GLEAN_DB.commit(); sqlite lets one           *)
(* connection write at a time; a SELECT outside a transaction reads the   *)
(* committed database.  `telemetry` and `pending` are the tables as the   *)
(* writing connection sees them, `committed` as every other one does.     *)

Procs == {1, 2}

\* the outbox after the application submitted 'metrics' n times
RECURSIVE Outbox(_)
Outbox(n) ==
    IF n = 0 THEN [t |-> {}, p |-> {}]
    ELSE LET before == Outbox(n - 1)
             s == submit(before.t, before.p, "metrics", GLEAN_START_TIME, n)
         IN  [t |-> s.t, p |-> s.p]

\* a process between two calls has no local variables
NoReg == [op |-> "none"]

\* the tables as the connection of process p reads them
View(p) ==
    IF lock = p THEN [telemetry |-> telemetry, pending |-> pending]
    ELSE committed

\* the connection of p may write: no other connection has a transaction
MayWrite(p) == lock \in {0, p}

HoldsAutocommit(p) == 0
\* cur.execute of an INSERT, UPDATE or DELETE: the connection of p holds
\* the write transaction from now on
Holds(p) == p

\* process p executes a writing statement that leaves the tables t and pd,
\* and then calls GLEAN_DB.commit() or not
Write(p, t, pd, commit) ==
    /\ telemetry' = t
    /\ pending' = pd
    /\ lock' = IF commit THEN 0 ELSE Holds(p)
    /\ committed' = IF lock' = 0 THEN [telemetry |-> t, pending |-> pd]
                    ELSE committed

InitConc ==
    /\ \E n \in 0..MaxSubmits :
          /\ telemetry = Outbox(n).t
          /\ pending = Outbox(n).p
          /\ nextId = n
          /\ committed = [telemetry |-> Outbox(n).t, pending |-> Outbox(n).p]
    /\ now = GLEAN_START_TIME
    /\ loop = FALSE
    /\ log = << >>
    /\ claims = [i \in 1..MaxSubmits |-> 0]
    /\ succeeded = {}
    /\ behind = [i \in 1..MaxDocs |-> {}]
    /\ added = [k \in AppRows |-> 0]
    /\ script = 0
    /\ pos = 0
    /\ pc = [p \in Procs |-> "idle"]
    /\ reg = [p \in Procs |-> NoReg]
    /\ lock = 0

\* process p calls c.add(), c.add(1) or c.add(2): record is entered
CallAdd(p, this, arg) ==
    /\ pc[p] = "idle"
    /\ \A ping \in Pings(this) : added[<<this.name, ping>>] + Asked(arg) <= MaxValue
    /\ pc' = [pc EXCEPT ![p] = "select"]
    /\ reg' = [reg EXCEPT ![p] = [op |-> "record", this |-> this, arg |-> arg,
                                  i |-> 1, value |-> {}]]
    /\ UNCHANGED <<storeVars, loop, histVars, labelVars, lock, committed>>

\* Metric.record, for the i-th ping: SELECT value ... fetchone()
RecordSelect(p) ==
    /\ pc[p] = "select"
    /\ LET r == reg[p]
       IN  reg' = [reg EXCEPT ![p].value =
                      SelectValue(View(p).telemetry, r.this.name,
                                  r.this.send_in_pings[r.i], << >>)]
    /\ pc' = [pc EXCEPT ![p] = "insert"]
    /\ UNCHANGED <<storeVars, loop, histVars, labelVars, lock, committed>>

\* Metric.record, for the i-th ping: newvalue = fn(value) and the INSERT;
\* after the last ping GLEAN_DB.commit() and record returns
RecordInsert(p) ==
    /\ pc[p] = "insert"
    /\ MayWrite(p)
    /\ LET r == reg[p]
           newvalue == ApplyFn(AddFn(Amount(r.arg)), r.value)
           t == Upsert(View(p).telemetry, r.this.name, r.this.send_in_pings[r.i],
                       r.this.lifetime, << >>, newvalue)
           last == r.i = Len(r.this.send_in_pings)
       IN  /\ Write(p, t, View(p).pending, last)
           /\ pc' = [pc EXCEPT ![p] = IF last THEN "idle" ELSE "select"]
           /\ reg' = [reg EXCEPT ![p] = IF last THEN NoReg
                                        ELSE [r EXCEPT !.i = @ + 1, !.value = {}]]
           /\ added' = IF last
                       THEN [k \in AppRows |->
                               IF k[1] = r.this.name /\ k[2] \in Pings(r.this)
                               THEN added[k] + Asked(r.arg) ELSE added[k]]
                       ELSE added
    /\ UNCHANGED <<now, nextId, loop, log, claims, succeeded, behind, labelVars>>

\* process p calls Uploader().get_upload_task()
CallUpload(p) ==
    /\ pc[p] = "idle"
    /\ pc' = [pc EXCEPT ![p] = "claim"]
    /\ UNCHANGED <<storeVars, loop, histVars, labelVars, reg, lock, committed>>

\* the claim step: value = cur.execute(sql).fetchone(), `break` when no
\* row is returned, and the DELETE and commit of a document past MAX_TRIES
Claim(p) ==
    /\ pc[p] = "claim"
    /\ MayWrite(p)
    /\ IF View(p).pending = {}
       THEN /\ Write(p, View(p).telemetry, View(p).pending, FALSE)
            /\ pc' = [pc EXCEPT ![p] = "idle"]
            /\ reg' = [reg EXCEPT ![p] = NoReg]
            /\ UNCHANGED behind
       ELSE \E d \in FirstPending(View(p).pending) :
               LET value == Claimed(d, now)
                   p1 == ClaimUpdate(View(p).pending, d, now)
                   exceeded == Exceeded(value.tries)
               IN  /\ Write(p, View(p).telemetry,
                            IF exceeded THEN DeletePending(p1, value.id) ELSE p1,
                            exceeded)
                   /\ pc' = [pc EXCEPT ![p] = "outcome"]
                   /\ reg' = [reg EXCEPT ![p] = [op |-> "upload", value |-> value]]
                   /\ behind' = BehindAfterClaim(behind, value.id)
    /\ UNCHANGED <<now, nextId, loop, log, claims, succeeded, added, labelVars>>

\* the outcome of the upload of the claimed document: on success the
\* DELETE and commit, on failure nothing; then the next turn of the loop
Outcome(p, ok) ==
    /\ pc[p] = "outcome"
    /\ IF ok
       THEN /\ MayWrite(p)
            /\ Write(p, View(p).telemetry,
                     DeletePending(View(p).pending, reg[p].value.id), TRUE)
            /\ UNCHANGED behind
       ELSE /\ UNCHANGED <<telemetry, pending, lock, committed>>
            /\ behind' = BehindAfterFailure(behind, reg[p].value.id, View(p).pending)
    /\ pc' = [pc EXCEPT ![p] = "claim"]
    /\ reg' = [reg EXCEPT ![p] = NoReg]
    /\ UNCHANGED <<now, nextId, loop, log, claims, succeeded, added, labelVars>>

\* the statements that write
WritingAt ==
    {"insert", "claim", "outcome",
     "submit_delete", "seq_add", "start_set", "submit_insert"}

\* a writing statement of p waited for another connection's transaction
\* longer than the connection's timeout: sqlite3.OperationalError
\* ('database is locked'), which nothing catches
LockTimeout(p) ==
    /\ pc[p] \in WritingAt
    /\ ~MayWrite(p)
    /\ pc' = [pc EXCEPT ![p] = "dead"]
    /\ reg' = [reg EXCEPT ![p] = NoReg]
    /\ UNCHANGED <<storeVars, loop, histVars, labelVars, lock, committed>>

\* both processes run get_upload_task
NextUploaders ==
    \/ Tick
    \/ \E p \in Procs : CallUpload(p)
    \/ \E p \in Procs : Claim(p)
    \/ \E p \in Procs, ok \in BOOLEAN : Outcome(p, ok)
    \/ \E p \in Procs : LockTimeout(p)

SpecUploaders == InitConc /\ [][NextUploaders]_vars

\* both processes record into the application's counters
NextRecorders ==
    \/ \E p \in Procs, this \in AppMetrics, arg \in Args : CallAdd(p, this, arg)
    \/ \E p \in Procs : RecordSelect(p)
    \/ \E p \in Procs : RecordInsert(p)
    \/ \E p \in Procs : LockTimeout(p)

SpecRecorders == InitConc /\ [][NextRecorders]_vars

-----------------------------------------------------------------------------
(* Claims about two processes *)

\* C3: a document that one process claimed and whose upload outcome it
\* has not handled yet is not returned by the claim step of the other
\* process: the two never hold the same document.
C3_ClaimExclusive ==
    \A p \in Procs, q \in Procs :
       (p # q /\ pc[p] = "outcome" /\ pc[q] = "outcome") =>
          reg[p].value.id # reg[q].value.id

\* both processes hold a claimed document whose outcome is not handled
C3_Witness ==
    /\ pc[1] = "outcome"
    /\ pc[2] = "outcome"
    /\ reg[1].value.id # reg[2].value.id

\* C10: when no record call is in progress, every counter row holds the
\* sum of the amounts of the add calls that completed on it: of two
\* concurrent calls add(a) and add(b) on a row holding v none is lost.
C10_NoLostUpdate ==
    (\A p \in Procs : pc[p] \notin {"select", "insert"}) =>
        \A k \in AppRows :
           Stored(committed.telemetry, k) = IF added[k] = 0 THEN {} ELSE {added[k]}

-----------------------------------------------------------------------------
(* One process records while another one submits: Ping.submit statement   *)
(* by statement.  The commits inside submit are those of the record calls *)
(* get_ping_info makes (seq.add(1), start_time.set(end_time)) and the     *)
(* final GLEAN_DB.commit().                                               *)

\* the process of the application that records, the one that submits
Recorder == 1
Submitter == 2

\* Ping(ping).submit() is called, when fewer than `limit` documents exist
CallSubmitBelow(p, ping, limit) ==
    /\ pc[p] = "idle"
    /\ nextId < limit
    /\ pc' = [pc EXCEPT ![p] = "submit_select"]
    /\ reg' = [reg EXCEPT ![p] = [op |-> "submit", ping |-> ping, metrics |-> {},
                                  st |-> GLEAN_START_TIME,
                                  end_time |-> GLEAN_START_TIME, seq |-> 0]]
    /\ UNCHANGED <<storeVars, loop, histVars, labelVars, lock, committed>>

CallSubmit(p, ping) == CallSubmitBelow(p, ping, MaxSubmits)

\* submit: SELECT id, value, labels ... fetchall() and the dict `metrics`
SubmitSelect(p) ==
    /\ pc[p] = "submit_select"
    /\ reg' = [reg EXCEPT ![p].metrics =
                  Reshape(SelectPing(View(p).telemetry, reg[p].ping))]
    /\ pc' = [pc EXCEPT ![p] = "submit_delete"]
    /\ UNCHANGED <<storeVars, loop, histVars, labelVars, lock, committed>>

\* submit: DELETE FROM telemetry WHERE ping = ?1 AND lifetime = 'ping'
SubmitDelete(p) ==
    /\ pc[p] = "submit_delete"
    /\ MayWrite(p)
    /\ Write(p, DeletePingLifetime(View(p).telemetry, reg[p].ping),
             View(p).pending, FALSE)
    /\ pc' = [pc EXCEPT ![p] = "seq_add"]
    /\ UNCHANGED <<now, nextId, loop, histVars, labelVars, reg>>

\* get_ping_info: seq.add(1), whose record commits
PingInfoSeqAdd(p) ==
    /\ pc[p] = "seq_add"
    /\ MayWrite(p)
    /\ Write(p, Record(View(p).telemetry, SeqMetric(reg[p].ping), AddFn(1)),
             View(p).pending, TRUE)
    /\ pc' = [pc EXCEPT ![p] = "start_get"]
    /\ UNCHANGED <<now, nextId, loop, histVars, labelVars, reg>>

\* get_ping_info: st = start_time.get_value() or str(GLEAN_START_TIME)
PingInfoStartGet(p) ==
    /\ pc[p] = "start_get"
    /\ LET got == GetValue(View(p).telemetry, StartMetric(reg[p].ping))
       IN  reg' = [reg EXCEPT ![p].st =
                      IF got = {} THEN GLEAN_START_TIME ELSE CHOOSE v \in got : TRUE]
    /\ pc' = [pc EXCEPT ![p] = "start_set"]
    /\ UNCHANGED <<storeVars, loop, histVars, labelVars, lock, committed>>

\* get_ping_info: end_time = str(datetime.now()); start_time.set(end_time),
\* whose record commits
PingInfoStartSet(p) ==
    /\ pc[p] = "start_set"
    /\ MayWrite(p)
    /\ Write(p, Record(View(p).telemetry, StartMetric(reg[p].ping), SetFn(now)),
             View(p).pending, TRUE)
    /\ reg' = [reg EXCEPT ![p].end_time = now]
    /\ pc' = [pc EXCEPT ![p] = "seq_get"]
    /\ UNCHANGED <<now, nextId, loop, histVars, labelVars>>

\* get_ping_info: "seq": seq.get_value()
PingInfoSeqGet(p) ==
    /\ pc[p] = "seq_get"
    /\ reg' = [reg EXCEPT ![p].seq =
                  CHOOSE v \in GetValue(View(p).telemetry, SeqMetric(reg[p].ping)) : TRUE]
    /\ pc' = [pc EXCEPT ![p] = "submit_insert"]
    /\ UNCHANGED <<storeVars, loop, histVars, labelVars, lock, committed>>

\* submit: INSERT INTO pending_pings and GLEAN_DB.commit()
SubmitInsert(p) ==
    /\ pc[p] = "submit_insert"
    /\ MayWrite(p)
    /\ LET r == reg[p]
           doc_id == nextId + 1
           payload == [ping_info |-> [seq |-> r.seq, start_time |-> r.st,
                                      end_time |-> r.end_time],
                       metrics |-> r.metrics]
       IN  /\ Write(p, View(p).telemetry,
                    View(p).pending \cup {NewPending(doc_id, r.ping, payload, now)},
                    TRUE)
           /\ nextId' = doc_id
           /\ log' = Append(log, <<r.ping, r.seq, doc_id>>)
    /\ pc' = [pc EXCEPT ![p] = "idle"]
    /\ reg' = [reg EXCEPT ![p] = NoReg]
    /\ UNCHANGED <<now, loop, claims, succeeded, behind, added, labelVars>>

\* the process of p is killed inside a call: its connection closes and
\* sqlite rolls back what it has not committed
Crash(p) ==
    /\ pc[p] \notin {"idle", "dead"}
    /\ pc' = [pc EXCEPT ![p] = "dead"]
    /\ reg' = [reg EXCEPT ![p] = NoReg]
    /\ IF lock = p
       THEN /\ telemetry' = committed.telemetry
            /\ pending' = committed.pending
            /\ lock' = 0
       ELSE UNCHANGED <<telemetry, pending, lock>>
    /\ UNCHANGED <<now, nextId, loop, histVars, labelVars, committed>>

InitSubmit ==
    /\ telemetry = {}
    /\ pending = {}
    /\ nextId = 0
    /\ committed = [telemetry |-> {}, pending |-> {}]
    /\ now = GLEAN_START_TIME
    /\ loop = FALSE
    /\ log = << >>
    /\ claims = [i \in 1..MaxSubmits |-> 0]
    /\ succeeded = {}
    /\ behind = [i \in 1..MaxDocs |-> {}]
    /\ added = [k \in AppRows |-> 0]
    /\ script = 0
    /\ pos = 0
    /\ pc = [p \in Procs |-> "idle"]
    /\ reg = [p \in Procs |-> NoReg]
    /\ lock = 0

NextSubmit ==
    \/ Tick
    \/ \E this \in AppMetrics, arg \in Args : CallAdd(Recorder, this, arg)
    \/ RecordSelect(Recorder)
    \/ RecordInsert(Recorder)
    \/ \E ping \in Reports : CallSubmit(Submitter, ping)
    \/ SubmitSelect(Submitter)
    \/ SubmitDelete(Submitter)
    \/ PingInfoSeqAdd(Submitter)
    \/ PingInfoStartGet(Submitter)
    \/ PingInfoStartSet(Submitter)
    \/ PingInfoSeqGet(Submitter)
    \/ SubmitInsert(Submitter)
    \/ \E p \in Procs : LockTimeout(p)
    \/ \E p \in Procs : Crash(p)

SpecSubmit == InitSubmit /\ [][NextSubmit]_vars

-----------------------------------------------------------------------------
(* Claims about submit beside other calls *)

\* the value a pending document carries for the unlabeled metric id
PayloadValue(d, id) ==
    LET leaves == {l \in d.payload.metrics : l.path = <<id>>}
    IN  IF leaves = {} THEN 0 ELSE (CHOOSE l \in leaves : TRUE).value

\* the sum of these values over a set of documents
RECURSIVE SumPayloads(_, _)
SumPayloads(docs, id) ==
    IF docs = {} THEN 0
    ELSE LET d == CHOOSE x \in docs : TRUE
         IN  PayloadValue(d, id) + SumPayloads(docs \ {d}, id)

\* the value stored in row k, 0 when the row is absent
StoredOrZero(t, k) ==
    IF Stored(t, k) = {} THEN 0 ELSE CHOOSE v \in Stored(t, k) : TRUE

\* the 'ping' counter rows of the application
PingRows == {k \in AppRows : \E this \in AppMetrics :
                this.name = k[1] /\ this.lifetime = "ping"}

\* C11: record on a 'ping' counter of report r beside submit(r): once
\* every call has returned, each amount added is counted exactly once, in
\* the payload of one pending document of r or in the row still stored.
C11_IncrementsCountedOnce ==
    (\A p \in Procs : pc[p] = "idle") =>
        \A k \in PingRows :
           SumPayloads({d \in committed.pending : d.ping = k[2]}, k[1])
             + StoredOrZero(committed.telemetry, k) = added[k]

\* the sequence number of report r as committed
DurableSeq(r) == StoredOrZero(committed.telemetry, <<SeqMetric(r).name, PingInfo>>)

\* C12: submit(r) is all or nothing in the committed database: when it
\* has returned or was interrupted (the process was killed, or a
\* statement failed with 'database is locked'), the sequence number of r
\* has advanced, and the 'ping' rows of r were deleted, only together
\* with the insertion of the pending document: as many documents of r
\* were inserted as its sequence number counts.
C12_SubmitAllOrNothing ==
    pc[Submitter] \in {"idle", "dead"} =>
        \A r \in Reports :
           DurableSeq(r) = Cardinality({d \in committed.pending : d.ping = r})

-----------------------------------------------------------------------------
(* One process runs get_upload_task while another one submits. *)

Scheduler == 1

\* Ping(ping).submit() is called while get_upload_task may be running
CallSubmitLate(p, ping) == CallSubmitBelow(p, ping, MaxDocs)

NextFeed ==
    \/ Tick
    \/ CallUpload(Scheduler)
    \/ Claim(Scheduler)
    \/ \E ok \in BOOLEAN : Outcome(Scheduler, ok)
    \/ \E ping \in Reports : CallSubmitLate(Submitter, ping)
    \/ SubmitSelect(Submitter)
    \/ SubmitDelete(Submitter)
    \/ PingInfoSeqAdd(Submitter)
    \/ PingInfoStartGet(Submitter)
    \/ PingInfoStartSet(Submitter)
    \/ PingInfoSeqGet(Submitter)
    \/ SubmitInsert(Submitter)
    \/ \E p \in Procs : LockTimeout(p)

SpecFeed == InitConc /\ [][NextFeed]_vars

\* the claim step of process p returns a document in this step
ClaimReturns(p) == pc[p] = "claim" /\ pc'[p] = "outcome"

\* C13: the claim step returns a pending document that is smallest in
\* (updated_at, tries) order, and after the upload of a document failed
\* every other document that was pending then, and still is, is claimed
\* before that document is claimed again.  (Rows equal in the order,
\* which SQL may return either way, are not held against the claim.)
C13_FailedGoesToBack ==
    [][\A p \in Procs :
         ClaimReturns(p) =>
            LET x == CHOOSE d \in View(p).pending : d.id = reg'[p].value.id
            IN  /\ \A e \in View(p).pending : Before(x, e)
                /\ \A e \in View(p).pending :
                      e.id \in behind[x.id] => Before(e, x)]_vars

-----------------------------------------------------------------------------
(* Claims about the outbox under one scheduler *)

\* the documents the claim step returns in this step of SpecOutbox
ClaimedNow == {id \in 1..MaxSubmits : claims'[id] # claims[id]}

\* C14: a document whose upload succeeded is not in the outbox and the
\* claim step never returns it again, so that it is uploaded with success
\* at most once.
C14_DeliveredOnce ==
    [][/\ \A id \in succeeded' : id \notin Ids(pending')
       /\ \A id \in ClaimedNow : id \notin succeeded]_vars

\* a document was uploaded with success, the loop went on and claimed the
\* other one more often than it
C14_Witness ==
    /\ loop
    /\ \E id \in succeeded, d \in pending : claims[d.id] > claims[id]

-----------------------------------------------------------------------------
(* Claims about what submit writes *)

\* the rows stored under report ping, as (place in the payload, value)
RowsUnder(t, ping) ==
    {<<(<<row.id>> \o row.labels), row.value>> : row \in {r \in t : r.ping = ping}}

\* C15: submit(r) adds exactly one pending document: of report r, with
\* tries 0, with an id no pending document has, and with the metrics that
\* are the rows stored under r just before the call (so none for a metric
\* without a row, and a document also when there is no row at all); the
\* documents that were pending stay.
C15_SubmitEnqueuesSnapshot ==
    [][\A ping \in Reports :
         Submitted(ping) =>
            /\ pending \subseteq pending'
            /\ \E d \in pending' \ pending :
                  /\ pending' \ pending = {d}
                  /\ d.ping = ping
                  /\ d.tries = 0
                  /\ d.id \notin Ids(pending)
                  /\ {<<l.path, l.value>> : l \in d.payload.metrics}
                        = RowsUnder(telemetry, ping)]_vars

\* two documents of one report are pending: one carries a 'user' and a
\* 'ping' metric, the other carries no metric at all
C15_Witness ==
    \E d \in pending, e \in pending :
       /\ d.ping = e.ping
       /\ Cardinality(d.payload.metrics) = 2
       /\ e.payload.metrics = {}

-----------------------------------------------------------------------------
(* Claims about what the label limiter keeps *)

\* the sum of the values of a set of rows
RECURSIVE SumValues(_)
SumValues(rows) ==
    IF rows = {} THEN 0
    ELSE LET row == CHOOSE r \in rows : TRUE
         IN  row.value + SumValues(rows \ {row})

\* the metric under test
ScriptName == IF script.kind = "labeled" THEN LabeledName ELSE DualName

\* the add(1) calls made so far
AddsSoFar ==
    IF script.K = 0 \/ script.C = 0 THEN 0
    ELSE (pos.pass - 1) * script.K * script.C + pos.i * script.C + pos.j

\* C16: for a labeled or dual-labeled counter, with or without
\* allow-lists, and no submit: the values stored over all label rows of
\* the metric, '__other__' included, add up to the amounts added; every
\* add call is carried out, whatever the number of labels stored.
C16_NoRecordingDropped ==
    SumValues(SelectLabels(telemetry, ScriptName, "metrics")) = AddsSoFar

\* every pass over more than MAX_LABELS labels is done: '__other__' holds
\* the overflow of all passes
C16_Witness ==
    /\ script.kind = "labeled"
    /\ script.al = {}
    /\ script.K = NumLabels
    /\ pos.pass = MaxPasses + 1
    /\ SelectValue(telemetry, LabeledName, "metrics", <<Other>>)
          = {MaxPasses * (NumLabels - MAX_LABELS)}
    /\ AddsSoFar = MaxPasses * NumLabels

-----------------------------------------------------------------------------
(* Claims about the scheduling loop *)

\* C17: one scheduler, no submit while it runs: whatever the documents
\* pending and whatever the upload outcomes, a call of get_upload_task
\* returns, and the outbox is empty when it does.
C17_LoopEndsWithEmptyOutbox ==
    loop ~> (~loop /\ pending = {})

\* the loop has returned after every attempt on every document failed
C17_Witness ==
    /\ ~loop
    /\ pending = {}
    /\ succeeded = {}
    /\ \A id \in 1..MaxSubmits : claims[id] = MAX_TRIES + 1

\* C18: whatever the upload outcomes, the claim step returns a document
\* at most MAX_TRIES + 1 times, and between two turns of the loop every
\* document stored has a try-count from 0 to MAX_TRIES, the number of
\* times it was claimed.
C18_TriesBounded ==
    /\ \A id \in 1..MaxSubmits : claims[id] <= MAX_TRIES + 1
    /\ \A d \in pending :
          /\ d.tries \in 0..MAX_TRIES
          /\ d.tries = claims[d.id]

\* one document was claimed MAX_TRIES + 1 times and is gone, the other
\* is stored with MAX_TRIES failed attempts
C18_Witness ==
    /\ loop
    /\ \E id \in 1..MaxSubmits :
          /\ claims[id] = MAX_TRIES + 1
          /\ id \notin Ids(pending)
    /\ \E d \in pending : d.tries = MAX_TRIES

-----------------------------------------------------------------------------
(* Labeled counters in several reports, with a submit in between *)

\* the values of the narrow dimension of a dual-labeled counter
NumPair == 2

\* send_in_pings of the handles
Sends == {<<"metrics">>, <<"events">>, <<"metrics", "events">>}

\* a run: K labels through a counter sent in `first`, a submit of report
\* `sub` (or none), then `more` labels, counted from the label `from`,
\* through a counter of the same name sent in `second`; a dual-labeled
\* counter runs through NumPair values of its narrow dimension for each
\* value of the other
CapScripts ==
    {sc \in [kind : {"labeled", "dual"}, narrow : {"key", "cat"},
              first : Sends, K : 0..NumLabels,
              sub : Reports \cup {"none"},
              second : Sends,
              more : {0, 1, NumLabels - MAX_LABELS, NumLabels},
              from : 0..NumLabels] :
        /\ sc.from \in {0, sc.K}
        /\ sc.kind = "labeled" => sc.narrow = "cat"}

\* the labels phase 1 or 3 of the run goes through
CapWide(sc, phase) == IF phase = 1 THEN sc.K ELSE sc.more
CapNarrow(sc) == IF sc.kind = "labeled" THEN 1 ELSE NumPair

\* the handle lc.get(...) gives at position (phase, i, j)
CapHandle(sc, at) ==
    LET pings == IF at.phase = 1 THEN sc.first ELSE sc.second
        w == (IF at.phase = 1 THEN 0 ELSE sc.from) + at.i
    IN  IF sc.kind = "labeled"
        THEN LabeledGet(LabeledName, "ping", pings, {}, Lab(w))
        ELSE IF sc.narrow = "cat"
             THEN DualGet(DualName, "ping", pings, {}, {}, Key(w), Cat(at.j))
             ELSE DualGet(DualName, "ping", pings, {}, {}, Key(at.j), Cat(w))

\* the first position from `at` on at which the run does something:
\* phases 1 and 3 record, phase 2 submits, phase 4 is the end
RECURSIVE CapSettle(_, _)
CapSettle(sc, at) ==
    LET skip == CapSettle(sc, [phase |-> at.phase + 1, i |-> 0, j |-> 0])
    IN  IF at.phase \in {1, 3} /\ at.i >= CapWide(sc, at.phase) THEN skip
        ELSE IF at.phase = 2 /\ sc.sub = "none" THEN skip
        ELSE at

\* the position after the add at `at`
CapNextPos(sc, at) ==
    IF at.j + 1 < CapNarrow(sc)
    THEN [at EXCEPT !.j = @ + 1]
    ELSE CapSettle(sc, [at EXCEPT !.i = @ + 1, !.j = 0])

InitCap ==
    /\ telemetry = {}
    /\ pending = {}
    /\ now = GLEAN_START_TIME
    /\ nextId = 0
    /\ loop = FALSE
    /\ log = << >>
    /\ claims = [i \in 1..MaxSubmits |-> 0]
    /\ succeeded = {}
    /\ behind = [i \in 1..MaxDocs |-> {}]
    /\ added = [k \in AppRows |-> 0]
    /\ script \in CapScripts
    /\ pos = CapSettle(script, [phase |-> 1, i |-> 0, j |-> 0])
    /\ pc = 0
    /\ reg = 0
    /\ lock = 0
    /\ committed = 0

\* lc.get(label).add() or dc.get(key, cat).add()
CapAdd ==
    /\ pos.phase \in {1, 3}
    /\ telemetry' = CounterAdd(telemetry, CapHandle(script, pos), {})
    /\ pos' = CapNextPos(script, pos)
    /\ UNCHANGED <<pending, now, nextId, loop, script>>
    /\ UNCHANGED <<histVars, concVars>>

\* Ping(sub).submit()
CapSubmit ==
    /\ pos.phase = 2
    /\ LET doc_id == nextId + 1
           s == submit(telemetry, pending, script.sub, now, doc_id)
       IN  /\ telemetry' = s.t
           /\ pending' = s.p
           /\ nextId' = doc_id
           /\ log' = Append(log, <<script.sub, s.payload.ping_info.seq, doc_id>>)
    /\ pos' = CapSettle(script, [phase |-> 3, i |-> 0, j |-> 0])
    /\ UNCHANGED <<now, loop, claims, succeeded, behind, added, script>>
    /\ UNCHANGED concVars

NextCap ==
    \/ CapAdd
    \/ CapSubmit

SpecCap == InitCap /\ [][NextCap]_vars

\* the values stored in dimension n of the labels of metric id, over all
\* reports
StoredIn(t, id, n) == {row.labels[n] : row \in {r \in t : r.id = id}}

\* C19: after any recordings and submits made one after the other, a
\* metric recorded without allow-lists has at most MAX_LABELS + 1 labels
\* stored, counted over all reports, if it is single-labeled, and at most
\* MAX_LABELS + 1 keys and MAX_LABELS + 1 categories if it is dual-labeled.
C19_LabelsCappedOverReports ==
    /\ Cardinality(StoredIn(telemetry, LabeledName, 1)) <= MAX_LABELS + 1
    /\ Cardinality(StoredIn(telemetry, DualName, 1)) <= MAX_LABELS + 1
    /\ Cardinality(StoredIn(telemetry, DualName, 2)) <= MAX_LABELS + 1

\* a report was submitted and labels were recorded into the other one
\* since: MAX_LABELS + 1 labels are stored, none of them in both reports
C19_Witness ==
    /\ log # << >>
    /\ script.kind = "labeled"
    /\ Cardinality(StoredIn(telemetry, LabeledName, 1)) = MAX_LABELS + 1
    /\ \E ping \in Reports :
          /\ SelectValue(telemetry, LabeledName, ping, <<Other>>) # {}
          /\ \A row \in SelectLabels(telemetry, LabeledName, ping) :
                \A other \in Reports \ {ping} :
                   SelectValue(telemetry, LabeledName, other, row.labels) = {}

-----------------------------------------------------------------------------
(* Claims about what submit leaves alone *)

\* the rows get_ping_info keeps for a report
InfoRow(row, ping) ==
    /\ row.ping = PingInfo
    /\ row.id \in {"sequence#" \o ping, "start#" \o ping}

\* the rows a submit of `ping` is to leave as they are
Foreign(t, ping) == {row \in t : row.ping # ping /\ ~InfoRow(row, ping)}

\* C20: submit of a report leaves the rows stored under every other
\* report name as they are, but for its own sequence# and start# rows
\* under 'glean_ping_info', and leaves the documents already pending as
\* they are; a pending document changes only in a step that claims it.
C20_SubmitLeavesTheRest ==
    [][/\ \A ping \in Reports :
            Submitted(ping) =>
               /\ Foreign(telemetry', ping) = Foreign(telemetry, ping)
               /\ pending \subseteq pending'
       /\ \A d \in pending : d \notin pending' => d.id \in ClaimedNow]_vars

\* 'events' was submitted, then 'metrics': both documents are pending,
\* 'clicks' is cleared under 'metrics' and still stored under 'events'
C20_Witness ==
    /\ Len(log) = 2
    /\ log[1][1] = "events"
    /\ log[2][1] = "metrics"
    /\ Cardinality(pending) = 2
    /\ Stored(telemetry, <<"clicks", "metrics">>) = {}
    /\ Stored(telemetry, <<"clicks", "events">>) # {}

=============================================================================
